---- MODULE Spec2Model ----
(***************************************************************************)
(* balancebeam (src/proj-2/balancebeam/src/main.rs): a reverse proxy with  *)
(* random upstream selection, active health checks and per-IP rate         *)
(* limiting.  The model has one process per spawned task: the connection   *)
(* handlers, the health checker and the rate-limit reset task, plus the    *)
(* environment (upstreams that start or stop accepting connections).       *)
(* A critical section of a tokio RwLock that contains no await point is    *)
(* one atomic step; every await point between two critical sections        *)
(* separates two steps.                                                    *)
(***************************************************************************)
EXTENDS Integers, Sequences, FiniteSets, TLC

\* ---------------------------------------------------------------- bounds
NumHandlers == 2      \* handler tasks that can be alive at the same time
MaxThreshold == 2     \* --max-requests-per-minute is drawn from 0..MaxThreshold
MaxUpstreams == 2     \* 1..MaxUpstreams --upstream options are given
MaxFairThreshold == 1 \* the thresholds explored where lock fairness is assumed
NumDrawHandlers == 1  \* handler tasks explored where fair draws are assumed

Handlers == 1..NumHandlers

\* The client addresses.  The history variables forwarded and fresh follow the
\* client at WatchedIP; the first handler serves that client only, the other
\* handlers serve any client.
WatchedIP == "10.0.0.1"
IPs == {WatchedIP, "10.0.0.2"}
ClientIPs(h) == IF h = 1 THEN {WatchedIP} ELSE IPs

\* ----------------------------------------------------------------- state
VARIABLES
    max_requests_per_minute, \* ProxyState.max_requests_per_minute
    upstream_addresses,      \* ProxyState.upstream_addresses (a Vec)
    report_state,            \* ReportState.content behind the RwLock
    rate_limit_count,        \* RateLimit.map behind the RwLock
    accepting,               \* environment: upstreams that accept a TCP connect
    pc,                      \* handler h: the await point it is stopped at
    client_ip,               \* handler h: client_ip
    report,                  \* handler h: `report` local of connect_to_upstream
    upstream_conn,           \* handler h: upstream_conn (0: none)
    request,                 \* handler h: `request` local of the loop body
    hc_idx,                  \* health_check: upstreams probed in this cycle
    failed_servers,          \* health_check: failed_servers local
    last_event,              \* the response sent by the last step, if any
    probe_log,               \* history: probe outcomes of the running cycle
    published_log,           \* history: probe outcomes of the last finished cycle
    admitted,                \* history: rate_limit calls that returned false, per IP and window
    forwarded,               \* history: requests of WatchedIP accepted for forwarding in this window
    fresh,                   \* history: WatchedIP was throttled at the last reset and sent no request since
    rate_lock,               \* the RwLock around RateLimit: writer, readers, waiting tasks
    report_lock,             \* the RwLock around ReportState: writer, readers, waiting tasks
    value,                   \* handler h: `value` of rate_limit, the count that get_mut reached
    reset_pc                 \* the reset task: the await point it is stopped at

vars == <<max_requests_per_minute, upstream_addresses, report_state,
          rate_limit_count, accepting, pc, client_ip, report, upstream_conn,
          hc_idx, failed_servers, last_event, probe_log, published_log,
          admitted, forwarded, fresh, request, rate_lock, report_lock,
          value, reset_pc>>

config == <<max_requests_per_minute, upstream_addresses>>
hc_vars == <<hc_idx, failed_servers, probe_log, published_log, report_state>>
rate_vars == <<rate_limit_count, admitted, fresh>>
conn_vars == <<pc, client_ip, report, upstream_conn, request>>
lock_vars == <<rate_lock, report_lock, value, reset_pc>>

\* --------------------------------------------------------------- helpers
Range(s) == {s[i] : i \in DOMAIN s}

Contains(s, x) == \E i \in DOMAIN s : s[i] = x

Min(a, b) == IF a < b THEN a ELSE b

\* An upstream address: the i-th --upstream option.
UpstreamAddr(i) == i

NoEvent == [h |-> 0, ip |-> "", in |-> "", out |-> 0]

Event(h, ip, in, out) == [h |-> h, ip |-> ip, in |-> in, out |-> out]

\* http::StatusCode values the proxy sends itself
OK == 200
BAD_REQUEST == 400
PAYLOAD_TOO_LARGE == 413
TOO_MANY_REQUESTS == 429
BAD_GATEWAY == 502
SERVICE_UNAVAILABLE == 503

\* ------------------------------------------------------- pure functions
\* main, line 137, and handle_connection, line 220: the limiter is on.  The
\* faulty variant turns it on for a threshold of 0 too.
RateLimitEnabledOff == max_requests_per_minute >= 0

RateLimitEnabled == max_requests_per_minute > 0

\* rate_over: the read-locked lookup
rate_over(ip, map) ==
    IF ip \in DOMAIN map
    THEN map[ip] >= max_requests_per_minute
    ELSE FALSE

\* rate_limit, else branch: the write-locked get_mut / insert.  One faulty
\* variant counts an admission twice, the other rebuilds the map with the
\* caller's entry alone.
rate_limit_write_twice(ip, map) ==
    IF ip \in DOMAIN map
    THEN [map EXCEPT ![ip] = @ + 2]
    ELSE map @@ (ip :> 1)

rate_limit_write_alone(ip, map) ==
    IF ip \in DOMAIN map
    THEN ip :> (map[ip] + 1)
    ELSE ip :> 1

rate_limit_write(ip, map) ==
    IF ip \in DOMAIN map
    THEN [map EXCEPT ![ip] = @ + 1]
    ELSE map @@ (ip :> 1)

\* line 145: limit.map = HashMap::new()
EmptyMap == [ip \in {} |-> 0]

\* The value of the counter of ip, 0 when the map has no entry for it.
CountIn(map, ip) == IF ip \in DOMAIN map THEN map[ip] ELSE 0

Count(ip) == CountIn(rate_limit_count, ip)

\* What one probe can observe of an upstream.
ProbeOutcomes == {"connect_err", "write_err", "read_err", "non200", "ok200"}

\* health_check_upstream returned Ok(()): TRUE.  The faulty variant
\* takes any response for a healthy one.
health_check_upstream_any(outcome) ==
    outcome \in {"ok200", "non200"}

health_check_upstream(outcome) ==
    IF outcome # "connect_err"
    THEN IF outcome = "write_err" THEN FALSE
         ELSE IF outcome = "read_err" THEN FALSE
         ELSE IF outcome = "ok200" THEN TRUE
         ELSE FALSE
    ELSE FALSE

\* health_check, lines 324-326: the replacement of the report.  One faulty
\* variant accumulates instead, the other reports an address that no
\* --upstream option names.
publish_merge(old, new) ==
    old \o SelectSeq(new, LAMBDA u : ~Contains(old, u))

publish_foreign(old, new) ==
    Append(new, UpstreamAddr(MaxUpstreams + 1))

publish(old, new) ==
    IF old # new THEN new ELSE old

\* The results of request::read_from_stream that handle_connection tells apart.
ParseResults == {"Ok", "IncompleteRequest0", "IncompleteRequestN",
                 "MalformedRequest", "InvalidContentLength",
                 "ContentLengthMismatch", "RequestBodyTooLarge",
                 "ConnectionError"}

\* lines 246-254: the two results that end the session without a response
ClosesSession(result) ==
    result \in {"IncompleteRequest0", "ConnectionError"}

\* lines 257-264: make_http_error's argument.  The faulty variant answers
\* every parse error with 400.
status_for_error_flat(error) == BAD_REQUEST

status_for_error(error) ==
    IF error \in {"IncompleteRequest0", "IncompleteRequestN", "MalformedRequest",
                  "InvalidContentLength", "ContentLengthMismatch"}
    THEN BAD_REQUEST
    ELSE IF error = "RequestBodyTooLarge" THEN PAYLOAD_TOO_LARGE
    ELSE SERVICE_UNAVAILABLE

\* connect_to_upstream, line 187: the report the loop tests a draw against.
\* The faulty variant reads the shared report again on every draw.
skip_report_live(h) == report_state

skip_report(h) == report[h]

\* line 190: TcpStream::connect succeeded.  The faulty variant takes any
\* attempt for a success.
connect_ok_always(u) == TRUE

connect_ok(u) == u \in accepting

\* The requests a client sends: a request line and the value of the
\* x-forwarded-for header as the list of the addresses it names (empty: the
\* header is absent).
ClientRequests ==
    {[line |-> "GET /", xff |-> <<>>],
     [line |-> "GET /missing", xff |-> <<"10.0.0.2">>]}

\* No request is held: the loop body has not read one.
NoRequest == [line |-> "", xff |-> <<>>]

\* request::extend_header_value(&mut request, "x-forwarded-for", &client_ip):
\* the address is appended to the header's value, and the header is created
\* when the request has none.
extend_header_value(req, ip) ==
    [req EXCEPT !.xff = Append(@, ip)]

\* The status of the response an upstream gives to the request it receives.
UpstreamReply(req) ==
    IF req.line = "GET /" THEN OK ELSE SERVICE_UNAVAILABLE

\* The tasks that take the locks: the handlers, the health checker (main,
\* line 129) and the rate-limit reset task (main, line 138).
HealthTask == NumHandlers + 1

ResetTask == NumHandlers + 2

\* tokio::sync::RwLock: the task holding it for writing (0: none), the tasks
\* holding it for reading, and the tasks that called read() or write() and
\* wait, in the order of their calls.
FreeLock == [w |-> 0, r |-> {}, q |-> <<>>]

Holds(lock, t) == lock.w = t \/ t \in lock.r

Waits(lock, t) == Contains(lock.q, t)

\* read().await or write().await is called: the task joins the queue.
Enqueue(lock, t) == [lock EXCEPT !.q = Append(@, t)]

\* The first waiting task gets a read guard when no task writes.
CanRead(lock, t) == lock.q # <<>> /\ Head(lock.q) = t /\ lock.w = 0

GrantRead(lock, t) == [lock EXCEPT !.q = Tail(@), !.r = @ \cup {t}]

\* The first waiting task gets the write guard when no task holds the lock.
CanWrite(lock, t) ==
    lock.q # <<>> /\ Head(lock.q) = t /\ lock.w = 0 /\ lock.r = {}

GrantWrite(lock, t) == [lock EXCEPT !.q = Tail(@), !.w = t]

\* The guard of task t is dropped.
Release(lock, t) ==
    [lock EXCEPT !.w = IF @ = t THEN 0 ELSE @, !.r = @ \ {t}]

\* The class of a probe outcome that the history keeps.
Class(outcome) ==
    IF outcome = "ok200" THEN "ok"
    ELSE IF outcome = "non200" THEN "non200"
    ELSE "err"

\* The upstreams a finished cycle found failing, in configuration order.
FailedOf(log) ==
    SelectSeq(upstream_addresses, LAMBDA u : log[u] # "ok")

\* ------------------------------------------------------------------ Init
\* main, lines 95-134: the options are parsed, the report is empty (line 124),
\* the rate-limit map is empty (line 134), no connection has been accepted.
\* The limiter and the selection share no data, so the deployments explored
\* are those with the limiter off and up to MaxUpstreams upstreams, and those
\* with the limiter on and one upstream.
Init ==
    /\ max_requests_per_minute \in 0..MaxThreshold
    /\ upstream_addresses \in
           {[i \in 1..n |-> UpstreamAddr(i)] : n \in 1..MaxUpstreams}
    /\ max_requests_per_minute = 0 \/ Len(upstream_addresses) = 1
    /\ report_state = <<>>
    /\ rate_limit_count = EmptyMap
    /\ accepting \in SUBSET Range(upstream_addresses)
    /\ pc = [h \in Handlers |-> "idle"]
    /\ client_ip = [h \in Handlers |-> ""]
    /\ report = [h \in Handlers |-> <<>>]
    /\ upstream_conn = [h \in Handlers |-> 0]
    /\ request = [h \in Handlers |-> NoRequest]
    /\ hc_idx = 0
    /\ failed_servers = <<>>
    /\ last_event = NoEvent
    /\ probe_log = <<>>
    /\ published_log = <<>>
    /\ admitted = [ip \in IPs |-> 0]
    /\ forwarded = 0
    /\ fresh = FALSE
    /\ rate_lock = FreeLock
    /\ report_lock = FreeLock
    /\ value = [h \in Handlers |-> 0]
    /\ reset_pc = "delay"

\* ------------------------------------------------- connection handlers
\* `return` of handle_connection: both sockets are dropped, the task ends.
\* The faulty variant is a `continue`: the loop goes on with both sockets.
ReturnContinue(h) ==
    /\ pc' = [pc EXCEPT ![h] = "read_request"]
    /\ request' = [request EXCEPT ![h] = NoRequest]
    /\ UNCHANGED <<client_ip, report, upstream_conn>>

Return(h) ==
    /\ pc' = [pc EXCEPT ![h] = "idle"]
    /\ client_ip' = [client_ip EXCEPT ![h] = ""]
    /\ report' = [report EXCEPT ![h] = <<>>]
    /\ upstream_conn' = [upstream_conn EXCEPT ![h] = 0]
    /\ request' = [request EXCEPT ![h] = NoRequest]

\* main, lines 152-161, and handle_connection up to line 220: a connection of
\* a client at address ip is accepted and its handler is spawned.
Accept(h, ip) ==
    /\ pc[h] = "idle"
    /\ ip \in ClientIPs(h)
    /\ client_ip' = [client_ip EXCEPT ![h] = ip]
    /\ pc' = [pc EXCEPT ![h] = IF RateLimitEnabled THEN "rate_over"
                                 ELSE "get_report"]
    /\ last_event' = NoEvent
    /\ UNCHANGED <<config, lock_vars, hc_vars, rate_vars, accepting, report,
                   upstream_conn, request, forwarded>>

\* rate_limit, line 369, with lines 222-224 when it returns true
RateOver(h) ==
    /\ pc[h] = "rate_over"
    /\ IF rate_over(client_ip[h], rate_limit_count)
       THEN /\ last_event' = Event(h, client_ip[h], "rate_over", TOO_MANY_REQUESTS)
            /\ fresh' = (fresh /\ client_ip[h] # WatchedIP)
            /\ Return(h)
       ELSE /\ last_event' = NoEvent
            /\ pc' = [pc EXCEPT ![h] = "rate_write"]
            /\ UNCHANGED <<fresh, client_ip, report, upstream_conn, request>>
    /\ UNCHANGED <<config, lock_vars, hc_vars, rate_limit_count, admitted, accepting,
                   forwarded>>

\* rate_limit, lines 372-378
RateWrite(h) ==
    /\ pc[h] = "rate_write"
    /\ rate_limit_count' = rate_limit_write(client_ip[h], rate_limit_count)
    /\ admitted' = [admitted EXCEPT ![client_ip[h]] = @ + 1]
    /\ fresh' = (fresh /\ client_ip[h] # WatchedIP)
    /\ pc' = [pc EXCEPT ![h] = "get_report"]
    /\ last_event' = NoEvent
    /\ UNCHANGED <<config, lock_vars, hc_vars, accepting, client_ip, report,
                   upstream_conn, request, forwarded>>

\* get_report, called at line 181
GetReport(h) ==
    /\ pc[h] = "get_report"
    /\ report' = [report EXCEPT ![h] = report_state]
    /\ pc' = [pc EXCEPT ![h] = "select"]
    /\ last_event' = NoEvent
    /\ UNCHANGED <<config, lock_vars, hc_vars, rate_vars, accepting, client_ip,
                   upstream_conn, request, forwarded>>

\* connect_to_upstream, one turn of the loop of lines 183-198 with the draw
\* idx; the statements after the loop (lines 200-202) are unreachable.
\* The faulty variant never draws the last index.
SelectShort(h, idx) ==
    /\ pc[h] = "select"
    /\ idx \in 1..(Len(upstream_addresses) - 1)
    /\ LET upstream_ip == upstream_addresses[idx] IN
       IF Contains(skip_report(h), upstream_ip)
       THEN /\ last_event' = NoEvent
            /\ UNCHANGED conn_vars
       ELSE IF connect_ok(upstream_ip)
            THEN /\ upstream_conn' = [upstream_conn EXCEPT ![h] = upstream_ip]
                 /\ report' = [report EXCEPT ![h] = <<>>]
                 /\ pc' = [pc EXCEPT ![h] = "read_request"]
                 /\ last_event' = Event(h, client_ip[h], "connected", 0)
                 /\ UNCHANGED <<client_ip, request>>
            ELSE /\ last_event' = NoEvent
                 /\ UNCHANGED conn_vars
    /\ UNCHANGED <<config, lock_vars, hc_vars, rate_vars, accepting, forwarded>>

Select(h, idx) ==
    /\ pc[h] = "select"
    /\ idx \in 1..Len(upstream_addresses)
    /\ LET upstream_ip == upstream_addresses[idx] IN
       IF Contains(skip_report(h), upstream_ip)
       THEN /\ last_event' = NoEvent
            /\ UNCHANGED conn_vars
       ELSE IF connect_ok(upstream_ip)
            THEN /\ upstream_conn' = [upstream_conn EXCEPT ![h] = upstream_ip]
                 /\ report' = [report EXCEPT ![h] = <<>>]
                 /\ pc' = [pc EXCEPT ![h] = "read_request"]
                 /\ last_event' = Event(h, client_ip[h], "connected", 0)
                 /\ UNCHANGED <<client_ip, request>>
            ELSE /\ last_event' = NoEvent
                 /\ UNCHANGED conn_vars
    /\ UNCHANGED <<config, lock_vars, hc_vars, rate_vars, accepting, forwarded>>

\* handle_connection, lines 243-268: one request is read from the client
ReadRequest(h, result) ==
    /\ pc[h] = "read_request"
    /\ result \in ParseResults
    /\ IF result = "Ok"
       THEN /\ pc' = [pc EXCEPT ![h] = "forward"]
            /\ forwarded' =
                   IF RateLimitEnabled /\ client_ip[h] = WatchedIP
                   THEN Min(forwarded + 1, max_requests_per_minute + 1)
                   ELSE forwarded
            /\ fresh' = (fresh /\ client_ip[h] # WatchedIP)
            /\ last_event' = NoEvent
            /\ \E req \in ClientRequests :
                   request' = [request EXCEPT ![h] = req]
                    /\ UNCHANGED <<client_ip, report, upstream_conn>>
       ELSE IF ClosesSession(result)
       THEN /\ Return(h)
            /\ last_event' = NoEvent
            /\ UNCHANGED <<forwarded, fresh>>
       ELSE /\ last_event' = Event(h, client_ip[h], result, status_for_error(result))
            /\ UNCHANGED <<conn_vars, forwarded, fresh>>
    /\ UNCHANGED <<config, lock_vars, hc_vars, rate_limit_count, admitted, accepting>>

\* handle_connection, lines 279-288: the header is extended in place and the
\* request is written to the upstream.  The first faulty variant writes the
\* request as the client sent it.
ForwardUnextended(h, ok) ==
    /\ pc[h] = "forward"
    /\ IF ok
       THEN /\ pc' = [pc EXCEPT ![h] = "read_response"]
            /\ last_event' = NoEvent
            /\ UNCHANGED <<client_ip, report, upstream_conn, request>>
       ELSE /\ last_event' = Event(h, client_ip[h], "upstream_write", BAD_GATEWAY)
            /\ Return(h)
    /\ UNCHANGED <<config, lock_vars, hc_vars, rate_vars, accepting, forwarded>>

\* The second faulty variant reads the next request before the response.
ForwardPipelined(h, ok) ==
    /\ pc[h] = "forward"
    /\ IF ok
       THEN /\ pc' = [pc EXCEPT ![h] = "read_request"]
            /\ request' = [request EXCEPT ![h] = NoRequest]
            /\ last_event' = NoEvent
            /\ UNCHANGED <<client_ip, report, upstream_conn>>
       ELSE /\ last_event' = Event(h, client_ip[h], "upstream_write", BAD_GATEWAY)
            /\ Return(h)
    /\ UNCHANGED <<config, lock_vars, hc_vars, rate_vars, accepting, forwarded>>

Forward(h, ok) ==
    /\ pc[h] = "forward"
    /\ IF ok
       THEN /\ pc' = [pc EXCEPT ![h] = "read_response"]
            /\ request' = [request EXCEPT ![h] =
                               extend_header_value(@, client_ip[h])]
            /\ last_event' = NoEvent
            /\ UNCHANGED <<client_ip, report, upstream_conn>>
       ELSE /\ last_event' = Event(h, client_ip[h], "upstream_write", BAD_GATEWAY)
            /\ Return(h)
    /\ UNCHANGED <<config, lock_vars, hc_vars, rate_vars, accepting, forwarded>>

\* handle_connection, lines 291-302: the response that the upstream gives to
\* the request it received is read and relayed; the loop body ends and
\* `request` is dropped.  The faulty variant selects another upstream when
\* the read fails.
ReadResponseFailover(h, ok) ==
    /\ pc[h] = "read_response"
    /\ IF ok
       THEN /\ pc' = [pc EXCEPT ![h] = "read_request"]
            /\ LET response == UpstreamReply(request[h]) IN
                   last_event' = Event(h, client_ip[h], "response", response)
            /\ request' = [request EXCEPT ![h] = NoRequest]
            /\ UNCHANGED <<client_ip, report, upstream_conn>>
       ELSE /\ pc' = [pc EXCEPT ![h] = "get_report"]
            /\ last_event' = NoEvent
            /\ UNCHANGED <<client_ip, report, upstream_conn, request>>
    /\ UNCHANGED <<config, lock_vars, hc_vars, rate_vars, accepting, forwarded>>

ReadResponse(h, ok) ==
    /\ pc[h] = "read_response"
    /\ IF ok
       THEN /\ pc' = [pc EXCEPT ![h] = "read_request"]
            /\ LET response == UpstreamReply(request[h]) IN
                   last_event' = Event(h, client_ip[h], "response", response)
            /\ request' = [request EXCEPT ![h] = NoRequest]
            /\ UNCHANGED <<client_ip, report, upstream_conn>>
       ELSE /\ last_event' = Event(h, client_ip[h], "upstream_read", BAD_GATEWAY)
            /\ Return(h)
    /\ UNCHANGED <<config, lock_vars, hc_vars, rate_vars, accepting, forwarded>>

\* -------------------------------------------------------- health checker
\* health_check, lines 314-320: after the delay, the next upstream of the
\* cycle is probed; outcome is what health_check_upstream meets.  The faulty
\* variant writes the report after every probe.
HealthProbeEager(outcome) ==
    /\ hc_idx < Len(upstream_addresses)
    /\ outcome \in ProbeOutcomes
    /\ LET ip == upstream_addresses[hc_idx + 1] IN
       /\ (outcome = "connect_err") <=> (ip \notin accepting)
       /\ failed_servers' = IF health_check_upstream(outcome)
                            THEN failed_servers
                            ELSE Append(failed_servers, ip)
    /\ report_state' = failed_servers'
    /\ hc_idx' = hc_idx + 1
    /\ probe_log' = Append(probe_log, Class(outcome))
    /\ last_event' = NoEvent
    /\ UNCHANGED <<config, lock_vars, published_log, rate_vars, accepting, conn_vars,
                   forwarded>>

HealthProbe(outcome) ==
    /\ hc_idx < Len(upstream_addresses)
    /\ outcome \in ProbeOutcomes
    /\ LET ip == upstream_addresses[hc_idx + 1] IN
       /\ (outcome = "connect_err") <=> (ip \notin accepting)
       /\ failed_servers' = IF health_check_upstream(outcome)
                            THEN failed_servers
                            ELSE Append(failed_servers, ip)
    /\ hc_idx' = hc_idx + 1
    /\ probe_log' = Append(probe_log, Class(outcome))
    /\ last_event' = NoEvent
    /\ UNCHANGED <<config, lock_vars, report_state, published_log, rate_vars, accepting,
                   conn_vars, forwarded>>

\* health_check, lines 322-327: the report is written under the write lock
HealthPublish ==
    /\ hc_idx = Len(upstream_addresses)
    /\ report_state' = publish(report_state, failed_servers)
    /\ published_log' = probe_log
    /\ probe_log' = <<>>
    /\ failed_servers' = <<>>
    /\ hc_idx' = 0
    /\ last_event' = NoEvent
    /\ UNCHANGED <<config, lock_vars, rate_vars, accepting, conn_vars, forwarded>>

\* ------------------------------------------------------------ reset task
\* main, lines 137-149: the task exists when the limit is positive; after
\* each delay it replaces the map under the write lock.
ResetTick ==
    /\ RateLimitEnabled
    /\ rate_limit_count' = EmptyMap
    /\ admitted' = [ip \in IPs |-> 0]
    /\ forwarded' = 0
    /\ fresh' = rate_over(WatchedIP, rate_limit_count)
    /\ last_event' = NoEvent
    /\ UNCHANGED <<config, lock_vars, hc_vars, accepting, conn_vars>>

\* ----------------------------------------------------------- environment
\* An upstream starts or stops accepting connections.
UpstreamChange(u) ==
    /\ u \in Range(upstream_addresses)
    /\ accepting' = IF u \in accepting THEN accepting \ {u}
                    ELSE accepting \cup {u}
    /\ last_event' = NoEvent
    /\ UNCHANGED <<config, lock_vars, hc_vars, rate_vars, conn_vars, forwarded>>

HandlerStep(h) ==
    \/ \E ip \in ClientIPs(h) : Accept(h, ip)
    \/ RateOver(h)
    \/ RateWrite(h)
    \/ GetReport(h)
    \/ \E idx \in 1..MaxUpstreams : Select(h, idx)
    \/ \E result \in ParseResults : ReadRequest(h, result)
    \/ \E ok \in BOOLEAN : Forward(h, ok)
    \/ \E ok \in BOOLEAN : ReadResponse(h, ok)

Next ==
    \/ \E h \in Handlers : HandlerStep(h)
    \/ \E outcome \in ProbeOutcomes : HealthProbe(outcome)
    \/ HealthPublish
    \/ ResetTick
    \/ \E u \in 1..MaxUpstreams : UpstreamChange(u)

Spec == Init /\ [][Next]_vars

\* The tasks run on tokio's runtime: a task whose awaited operation is ready
\* is polled again.  The client's steps (connecting, sending a request), the
\* reset timer and the upstreams' changes are not forced.
HandlerProgress(h) ==
    \/ RateOver(h)
    \/ RateWrite(h)
    \/ GetReport(h)
    \/ \E idx \in 1..MaxUpstreams : Select(h, idx)
    \/ \E ok \in BOOLEAN : Forward(h, ok)
    \/ \E ok \in BOOLEAN : ReadResponse(h, ok)

HealthStep ==
    \/ \E outcome \in ProbeOutcomes : HealthProbe(outcome)
    \/ HealthPublish

FairSpec ==
    /\ Init
    /\ [][Next]_vars
    /\ \A h \in Handlers : WF_vars(HandlerProgress(h))
    /\ WF_vars(HealthStep)

\* ------------------------------------------------------------ lock steps
\* The same tasks with every call of read() and write(), every grant and every
\* drop of a guard as a step of its own.  A handler that called read() or
\* write() stays at its position while it waits.

\* rate_over, line 383: rate_limit_count.read().await is called
RateOverCall(h) ==
    /\ pc[h] = "rate_over"
    /\ ~Waits(rate_lock, h)
    /\ rate_lock' = Enqueue(rate_lock, h)
    /\ last_event' = NoEvent
    /\ UNCHANGED <<config, hc_vars, rate_vars, accepting, conn_vars, forwarded,
                   report_lock, value, reset_pc>>

\* rate_over, line 383: the read guard is granted
RateOverGrant(h) ==
    /\ pc[h] = "rate_over"
    /\ CanRead(rate_lock, h)
    /\ rate_lock' = GrantRead(rate_lock, h)
    /\ pc' = [pc EXCEPT ![h] = "rate_over_cs"]
    /\ last_event' = NoEvent
    /\ UNCHANGED <<config, hc_vars, rate_vars, accepting, client_ip, report,
                   upstream_conn, request, forwarded, report_lock, value, reset_pc>>

\* rate_over, lines 384-391: the lookup; the guard is dropped at the return.
\* The faulty variant keeps the guard until rate_limit returns.
RateOverReadHeld(h) ==
    /\ pc[h] = "rate_over_cs"
    /\ pc' = [pc EXCEPT ![h] = IF rate_over(client_ip[h], rate_limit_count)
                                 THEN "too_many" ELSE "rate_write"]
    /\ last_event' = NoEvent
    /\ UNCHANGED <<config, hc_vars, rate_vars, accepting, client_ip, report,
                   upstream_conn, request, forwarded, lock_vars>>

RateOverRead(h) ==
    /\ pc[h] = "rate_over_cs"
    /\ rate_lock' = Release(rate_lock, h)
    /\ pc' = [pc EXCEPT ![h] = IF rate_over(client_ip[h], rate_limit_count)
                                 THEN "too_many" ELSE "rate_write"]
    /\ last_event' = NoEvent
    /\ UNCHANGED <<config, hc_vars, rate_vars, accepting, client_ip, report,
                   upstream_conn, request, forwarded, report_lock, value, reset_pc>>

\* handle_connection, lines 222-224: 429 is sent and the handler returns
TooMany(h) ==
    /\ pc[h] = "too_many"
    /\ last_event' = Event(h, client_ip[h], "rate_over", TOO_MANY_REQUESTS)
    /\ fresh' = (fresh /\ client_ip[h] # WatchedIP)
    /\ Return(h)
    /\ UNCHANGED <<config, hc_vars, rate_limit_count, admitted, accepting,
                   forwarded, lock_vars>>

\* rate_limit, line 372: rate_limit_count.write().await is called
RateWriteCall(h) ==
    /\ pc[h] = "rate_write"
    /\ ~Waits(rate_lock, h)
    /\ rate_lock' = Enqueue(rate_lock, h)
    /\ last_event' = NoEvent
    /\ UNCHANGED <<config, hc_vars, rate_vars, accepting, conn_vars, forwarded,
                   report_lock, value, reset_pc>>

\* rate_limit, line 372: the write guard is granted.  The faulty variant
\* grants a guard that excludes no other task.
RateWriteGrantShared(h) ==
    /\ pc[h] = "rate_write"
    /\ rate_lock.q # <<>> /\ Head(rate_lock.q) = h
    /\ rate_lock' = GrantRead(rate_lock, h)
    /\ pc' = [pc EXCEPT ![h] = "rate_write_cs"]
    /\ last_event' = NoEvent
    /\ UNCHANGED <<config, hc_vars, rate_vars, accepting, client_ip, report,
                   upstream_conn, request, forwarded, report_lock, value, reset_pc>>

RateWriteGrant(h) ==
    /\ pc[h] = "rate_write"
    /\ CanWrite(rate_lock, h)
    /\ rate_lock' = GrantWrite(rate_lock, h)
    /\ pc' = [pc EXCEPT ![h] = "rate_write_cs"]
    /\ last_event' = NoEvent
    /\ UNCHANGED <<config, hc_vars, rate_vars, accepting, client_ip, report,
                   upstream_conn, request, forwarded, report_lock, value, reset_pc>>

\* rate_limit, line 373: get_mut reaches the count of the address (0: none)
RateWriteGet(h) ==
    /\ pc[h] = "rate_write_cs"
    /\ value' = [value EXCEPT ![h] = CountIn(rate_limit_count, client_ip[h])]
    /\ pc' = [pc EXCEPT ![h] = "rate_write_put"]
    /\ last_event' = NoEvent
    /\ UNCHANGED <<config, hc_vars, rate_vars, accepting, client_ip, report,
                   upstream_conn, request, forwarded, rate_lock, report_lock,
                   reset_pc>>

\* rate_limit, lines 374-378: the count is stored (inserted as 1 when get_mut
\* found none) and the guard is dropped at the return
RateWritePut(h) ==
    /\ pc[h] = "rate_write_put"
    /\ rate_limit_count' =
           [ip \in DOMAIN rate_limit_count \cup {client_ip[h]} |->
               IF ip = client_ip[h] THEN value[h] + 1 ELSE rate_limit_count[ip]]
    /\ admitted' = [admitted EXCEPT ![client_ip[h]] = @ + 1]
    /\ fresh' = (fresh /\ client_ip[h] # WatchedIP)
    /\ value' = [value EXCEPT ![h] = 0]
    /\ rate_lock' = Release(rate_lock, h)
    /\ pc' = [pc EXCEPT ![h] = "get_report"]
    /\ last_event' = NoEvent
    /\ UNCHANGED <<config, hc_vars, accepting, client_ip, report,
                   upstream_conn, request, forwarded, report_lock, reset_pc>>

\* get_report, line 175: report_state.read().await is called
GetReportCall(h) ==
    /\ pc[h] = "get_report"
    /\ ~Waits(report_lock, h)
    /\ report_lock' = Enqueue(report_lock, h)
    /\ last_event' = NoEvent
    /\ UNCHANGED <<config, hc_vars, rate_vars, accepting, conn_vars, forwarded,
                   rate_lock, value, reset_pc>>

\* get_report, line 175: the read guard is granted
GetReportGrant(h) ==
    /\ pc[h] = "get_report"
    /\ CanRead(report_lock, h)
    /\ report_lock' = GrantRead(report_lock, h)
    /\ pc' = [pc EXCEPT ![h] = "get_report_cs"]
    /\ last_event' = NoEvent
    /\ UNCHANGED <<config, hc_vars, rate_vars, accepting, client_ip, report,
                   upstream_conn, request, forwarded, rate_lock, value, reset_pc>>

\* get_report, lines 176-177: the content is copied and the guard is dropped
\* at the return
GetReportCopy(h) ==
    /\ pc[h] = "get_report_cs"
    /\ report' = [report EXCEPT ![h] = report_state]
    /\ report_lock' = Release(report_lock, h)
    /\ pc' = [pc EXCEPT ![h] = "select"]
    /\ last_event' = NoEvent
    /\ UNCHANGED <<config, hc_vars, rate_vars, accepting, client_ip,
                   upstream_conn, request, forwarded, rate_lock, value, reset_pc>>

\* health_check, line 323: after the last probe report_state.write().await
\* is called
HealthCall ==
    /\ hc_idx = Len(upstream_addresses)
    /\ ~Waits(report_lock, HealthTask)
    /\ ~Holds(report_lock, HealthTask)
    /\ report_lock' = Enqueue(report_lock, HealthTask)
    /\ last_event' = NoEvent
    /\ UNCHANGED <<config, hc_vars, rate_vars, accepting, conn_vars, forwarded,
                   rate_lock, value, reset_pc>>

\* health_check, line 323: the write guard is granted
HealthGrant ==
    /\ CanWrite(report_lock, HealthTask)
    /\ report_lock' = GrantWrite(report_lock, HealthTask)
    /\ last_event' = NoEvent
    /\ UNCHANGED <<config, hc_vars, rate_vars, accepting, conn_vars, forwarded,
                   rate_lock, value, reset_pc>>

\* health_check, lines 324-327: the report is replaced and the guard is
\* dropped at the end of the block; the next cycle starts with the delay
HealthStore ==
    /\ report_lock.w = HealthTask
    /\ report_state' = publish(report_state, failed_servers)
    /\ published_log' = probe_log
    /\ probe_log' = <<>>
    /\ failed_servers' = <<>>
    /\ hc_idx' = 0
    /\ report_lock' = Release(report_lock, HealthTask)
    /\ last_event' = NoEvent
    /\ UNCHANGED <<config, rate_vars, accepting, conn_vars, forwarded,
                   rate_lock, value, reset_pc>>

\* main, lines 141-144: the delay is over and limit.write().await is called
ResetCall ==
    /\ RateLimitEnabled
    /\ reset_pc = "delay"
    /\ reset_pc' = "write"
    /\ rate_lock' = Enqueue(rate_lock, ResetTask)
    /\ last_event' = NoEvent
    /\ UNCHANGED <<config, hc_vars, rate_vars, accepting, conn_vars, forwarded,
                   report_lock, value>>

\* main, line 144: the write guard is granted
ResetGrant ==
    /\ reset_pc = "write"
    /\ CanWrite(rate_lock, ResetTask)
    /\ rate_lock' = GrantWrite(rate_lock, ResetTask)
    /\ reset_pc' = "store"
    /\ last_event' = NoEvent
    /\ UNCHANGED <<config, hc_vars, rate_vars, accepting, conn_vars, forwarded,
                   report_lock, value>>

\* main, lines 145-147: the map is replaced and the guard is dropped at the
\* end of the block, before the next delay.  The faulty variant has no block:
\* the guard lives until the end of the loop body is reached after the delay.
ResetStoreHeld ==
    /\ reset_pc = "store"
    /\ rate_limit_count' = EmptyMap
    /\ admitted' = [ip \in IPs |-> 0]
    /\ forwarded' = 0
    /\ fresh' = rate_over(WatchedIP, rate_limit_count)
    /\ reset_pc' = "delay"
    /\ last_event' = NoEvent
    /\ UNCHANGED <<config, hc_vars, accepting, conn_vars, rate_lock,
                   report_lock, value>>

ResetStore ==
    /\ reset_pc = "store"
    /\ rate_limit_count' = EmptyMap
    /\ admitted' = [ip \in IPs |-> 0]
    /\ forwarded' = 0
    /\ fresh' = rate_over(WatchedIP, rate_limit_count)
    /\ rate_lock' = Release(rate_lock, ResetTask)
    /\ reset_pc' = "delay"
    /\ last_event' = NoEvent
    /\ UNCHANGED <<config, hc_vars, accepting, conn_vars, report_lock, value>>

\* handle_connection, lines 241-303: the request loop as one step.  It reads
\* and writes the two sockets only, and ends at one of its returns.
SessionIO(h) ==
    /\ pc[h] = "read_request"
    /\ Return(h)
    /\ last_event' = NoEvent
    /\ UNCHANGED <<config, hc_vars, rate_vars, accepting, forwarded, lock_vars>>

\* The steps of handler h that touch a lock.
HandlerLockStep(h) ==
    \/ RateOverCall(h)
    \/ RateOverGrant(h)
    \/ RateOverRead(h)
    \/ RateWriteCall(h)
    \/ RateWriteGrant(h)
    \/ RateWriteGet(h)
    \/ RateWritePut(h)
    \/ GetReportCall(h)
    \/ GetReportGrant(h)
    \/ GetReportCopy(h)

\* The steps of handler h that are socket I/O.
HandlerIOStep(h) ==
    \/ \E ip \in ClientIPs(h) : Accept(h, ip)
    \/ TooMany(h)
    \/ \E idx \in 1..MaxUpstreams : Select(h, idx)
    \/ SessionIO(h)

HealthLockStep ==
    \/ HealthCall
    \/ HealthGrant
    \/ HealthStore

ResetLockStep ==
    \/ ResetCall
    \/ ResetGrant
    \/ ResetStore

\* The probes of these runs meet an upstream that refuses the connection or
\* one that answers 200.
LockProbeOutcomes == {"connect_err", "ok200"}

LockNext ==
    \/ \E h \in Handlers : HandlerLockStep(h)
    \/ \E h \in Handlers : HandlerIOStep(h)
    \/ \E outcome \in LockProbeOutcomes : HealthProbe(outcome)
    \/ HealthLockStep
    \/ ResetLockStep

\* The deployments with one upstream, with the limiter on or off.
LockInit == Init /\ Len(upstream_addresses) = 1

LockSpec == LockInit /\ [][LockNext]_vars

\* The tasks that take a lock.
Tasks == Handlers \cup {HealthTask, ResetTask}

\* The runtime polls a task again when the guard it waits for can be granted,
\* and a task that holds a guard or is about to call read() or write() runs on
\* to its next await point.  The socket I/O of the handlers and the probes are
\* not forced.  The deployments are those with a threshold up to
\* MaxFairThreshold.
FairLockInit == LockInit /\ max_requests_per_minute <= MaxFairThreshold

FairLockSpec ==
    /\ FairLockInit
    /\ [][LockNext]_vars
    /\ \A h \in Handlers : WF_vars(HandlerLockStep(h))
    /\ WF_vars(HealthLockStep)
    /\ WF_vars(ResetLockStep)

\* ---------------------------------------------------------- fair draws
\* The deployments with the limiter off: rate_limit is never called and the
\* reset task is not spawned (lines 137, 220).
DrawHandlers == 1..NumDrawHandlers

DrawInit == Init /\ max_requests_per_minute = 0

DrawStep(h) ==
    \/ \E ip \in ClientIPs(h) : Accept(h, ip)
    \/ GetReport(h)
    \/ \E idx \in 1..MaxUpstreams : Select(h, idx)
    \/ \E result \in ParseResults : ReadRequest(h, result)
    \/ \E ok \in BOOLEAN : Forward(h, ok)
    \/ \E ok \in BOOLEAN : ReadResponse(h, ok)

DrawNext ==
    \/ \E h \in DrawHandlers : DrawStep(h)
    \/ \E outcome \in ProbeOutcomes : HealthProbe(outcome)
    \/ HealthPublish
    \/ \E u \in 1..MaxUpstreams : UpstreamChange(u)

\* rng.gen_range(0, len) at line 184 draws every index again and again.
FairDrawSpec ==
    /\ DrawInit
    /\ [][DrawNext]_vars
    /\ \A h \in DrawHandlers :
           \A idx \in 1..MaxUpstreams : WF_vars(Select(h, idx))

\* =================================================================== C1
\* C1: with threshold N > 0 and no more than N admissions by the limiter in the
\* window (no overshoot of a stale check), the client at WatchedIP has had at
\* most N requests accepted for forwarding in the window, whether they came
\* on separate connections or on one kept-alive connection.
C1_QuotaCountsEveryRequest ==
    (RateLimitEnabled /\ admitted[WatchedIP] <= max_requests_per_minute)
        => forwarded <= max_requests_per_minute

\* =================================================================== C2
\* C2: under every interleaving, the admissions of one IP between two resets
\* and the counter of that IP never exceed the threshold.
C2_NeverAboveThreshold ==
    RateLimitEnabled =>
        \A ip \in IPs : /\ admitted[ip] <= max_requests_per_minute
                        /\ Count(ip) <= max_requests_per_minute

\* =================================================================== C3
\* C3: when the only configured upstream refuses every connection attempt, a
\* handler that has entered upstream selection eventually answers 502.
C3_ExhaustionAnswers502 ==
    (Len(upstream_addresses) = 1 /\ [](accepting = {}))
        => \A h \in Handlers :
               [](pc[h] = "select"
                      => <>(last_event.h = h /\ last_event.out = BAD_GATEWAY))

\* =================================================================== C4
\* The upstreams that a selection call of handler h does not skip.
Candidates(h) ==
    {u \in Range(upstream_addresses) : ~Contains(report[h], u)}

\* C4: a connection returned by upstream selection is to a configured address
\* that is absent from the snapshot taken at the start of the call and that
\* accepted the connection; the snapshot does not change during the call; so
\* when all upstreams but one are in the snapshot, the connection is to that one.
C4_SelectionRespectsSnapshot ==
    [][\A h \in Handlers :
          /\ (pc[h] = "select" /\ pc'[h] = "select") => report'[h] = report[h]
          /\ (pc[h] = "select" /\ pc'[h] # "select") =>
                 /\ pc'[h] = "read_request"
                 /\ upstream_conn'[h] \in Range(upstream_addresses)
                 /\ upstream_conn'[h] \in Candidates(h)
                 /\ upstream_conn'[h] \in accepting
                 /\ \A u \in Range(upstream_addresses) :
                        Candidates(h) = {u} => upstream_conn'[h] = u]_vars

\* C4 witness: a handler has just been connected to an upstream that the shared
\* report lists: the report was replaced while the call was in progress.
C4_Witness ==
    \E h \in Handlers :
        /\ last_event = Event(h, client_ip[h], "connected", 0)
        /\ Contains(report_state, upstream_conn[h])
        /\ Len(upstream_addresses) > 1

\* =================================================================== C5
\* C5: after every finished health-check cycle the report is exactly the list
\* of the upstreams whose probe of that cycle did not answer 200.
C5_ReportIsLastCycle ==
    published_log # <<>> => report_state = FailedOf(published_log)

\* C5 witness: an upstream that an earlier cycle reported (a selection call
\* still holds that report) answered 200 in the last cycle and is not reported.
C5_Witness ==
    \E h \in Handlers : \E u \in Range(upstream_addresses) :
        /\ pc[h] = "select"
        /\ Contains(report[h], u)
        /\ published_log # <<>>
        /\ published_log[u] = "ok"
        /\ ~Contains(report_state, u)

\* =================================================================== C6
\* C6: a reset leaves the table empty, and the next request of a client that
\* was throttled at the reset is admitted and leaves its count at 1.
C6_NextRequestAfterReset ==
    [][/\ (RateLimitEnabled /\ fresh' /\ ~fresh) => rate_limit_count' = EmptyMap
       /\ \A h \in Handlers :
            (fresh /\ client_ip[h] = WatchedIP) =>
                /\ (pc[h] = "rate_over" /\ pc'[h] # "rate_over")
                       => pc'[h] = "rate_write"
                /\ (pc[h] = "rate_write" /\ pc'[h] # "rate_write")
                       => CountIn(rate_limit_count', WatchedIP) = 1
                /\ (pc[h] = "read_request" /\ pc'[h] = "forward")
                       => CountIn(rate_limit_count', WatchedIP) = 1]_vars

\* =================================================================== C7
\* C7: with threshold 0 the table is empty in every state, no handler is ever
\* inside rate_limit, the reset task cannot take a step, and no response is 429.
C7_DisabledLimiterIsInert ==
    max_requests_per_minute = 0 =>
        /\ rate_limit_count = EmptyMap
        /\ \A h \in Handlers : pc[h] \notin {"rate_over", "rate_write"}
        /\ ~ENABLED ResetTick
        /\ last_event.out # TOO_MANY_REQUESTS

\* C7 witness: with threshold 0, all handlers serve the same client and one
\* has just relayed a response.
C7_Witness ==
    /\ max_requests_per_minute = 0
    /\ last_event.in = "response"
    /\ \A h \in Handlers : pc[h] = "read_request" /\ client_ip[h] = WatchedIP

\* =================================================================== C8
\* C8: a parse error other than the zero-byte EOF and the client I/O error is
\* answered with 400 (413 for an oversized body), and the handler is back at
\* reading the next request with both connections open.
C8_ParseErrorKeepsSession ==
    \A e \in ParseResults \ {"Ok", "IncompleteRequest0", "ConnectionError"} :
        last_event.in = e =>
            /\ last_event.out = IF e = "RequestBodyTooLarge" THEN 413 ELSE 400
            /\ pc[last_event.h] = "read_request"
            /\ client_ip[last_event.h] = last_event.ip
            /\ upstream_conn[last_event.h] # 0
            /\ ENABLED ReadRequest(last_event.h, "Ok")

\* C8 witness: an oversized body has just been answered.
C8_Witness ==
    /\ last_event.in = "RequestBodyTooLarge"
    /\ last_event.out = PAYLOAD_TOO_LARGE

\* =================================================================== C9
\* C9: a selection call that starts after a cycle was published in which an
\* upstream answered with a status other than 200, and before the next cycle
\* is published, skips that upstream: its snapshot lists it, and the
\* connection it returns is to an upstream that the snapshot does not list.
C9_Non200IsSkipped ==
    [][\A h \in Handlers :
          /\ (pc[h] = "get_report" /\ pc'[h] # "get_report") =>
                 \A u \in DOMAIN published_log :
                     published_log[u] = "non200"
                         => Contains(report'[h], upstream_addresses[u])
          /\ (pc[h] = "select" /\ pc'[h] = "select") => report'[h] = report[h]
          /\ (pc[h] = "select" /\ pc'[h] # "select")
                 => ~Contains(report[h], upstream_conn'[h])]_vars

\* C9 witness: the last cycle found an upstream answering non-200; that
\* upstream accepts connections, and a handler has just been connected to
\* another one.
C9_Witness ==
    \E h \in Handlers : \E u \in DOMAIN published_log :
        /\ published_log[u] = "non200"
        /\ upstream_addresses[u] \in accepting
        /\ last_event = Event(h, client_ip[h], "connected", 0)
        /\ upstream_conn[h] # upstream_addresses[u]

\* ================================================================== C10
\* C10: while every configured upstream is in the snapshot of a selection call
\* or refuses connections, the call does not return a connection.
C10_NoConnectionInOutage ==
    [][\A h \in Handlers :
          (/\ pc[h] = "select"
           /\ \A u \in Range(upstream_addresses) :
                  Contains(report[h], u) \/ u \notin accepting)
              => (pc'[h] = "select" /\ upstream_conn'[h] = 0)]_vars

\* C10 witness: a call is under way with one upstream in its snapshot and the
\* other one refusing connections.
C10_Witness ==
    \E h \in Handlers :
        /\ pc[h] = "select"
        /\ Len(report[h]) = 1
        /\ Len(upstream_addresses) = 2
        /\ \A u \in Range(upstream_addresses) :
               Contains(report[h], u) \/ u \notin accepting

\* ================================================================== C11
\* C11: the request that a handler writes to its upstream is the request it
\* read from the client with the client's address appended to the value of
\* x-forwarded-for and nothing else changed, and the response it then sends
\* to the client is the response the upstream gave to that request.
C11_ForwardAndRelay ==
    [][\A h \in Handlers :
          /\ (pc[h] = "forward" /\ pc'[h] = "read_response") =>
                 /\ request'[h].line = request[h].line
                 /\ request'[h].xff = request[h].xff \o <<client_ip[h]>>
                 /\ request[h] \in ClientRequests
          /\ (pc[h] = "read_response" /\ pc'[h] = "read_request") =>
                 /\ last_event'.h = h
                 /\ last_event'.in = "response"
                 /\ last_event'.out = UpstreamReply(request[h])]_vars

\* C11 witness: a request that already named an address in x-forwarded-for
\* has been written to the upstream with the client's address after it.
C11_Witness ==
    \E h \in Handlers :
        /\ pc[h] = "read_response"
        /\ Len(request[h].xff) = 2
        /\ request[h].xff[2] = client_ip[h]
        /\ UpstreamReply(request[h]) = SERVICE_UNAVAILABLE

\* ================================================================== C12
\* C12: the steps of a rate-limit check of handler h for the address a: the
\* lookup leaves the table unchanged, whether it rejects (429 is sent and the
\* handler returns) or admits; the write of an admitted check makes the count of
\* a one more than it was (1 when a had no entry); and the entry of every
\* other address b is what it was.
C12_CheckTouchesOwnEntry ==
    [][\A h \in Handlers :
          LET a == client_ip[h] IN
          /\ (pc[h] = "rate_over" /\ pc'[h] # "rate_over") =>
                 /\ rate_limit_count' = rate_limit_count
                 /\ (last_event' = Event(h, a, "rate_over", TOO_MANY_REQUESTS))
                        <=> rate_over(a, rate_limit_count)
          /\ (pc[h] = "rate_write" /\ pc'[h] # "rate_write") =>
                 /\ a \in DOMAIN rate_limit_count'
                 /\ rate_limit_count'[a] = CountIn(rate_limit_count, a) + 1
                 /\ \A b \in IPs \ {a} :
                        /\ (b \in DOMAIN rate_limit_count')
                               <=> (b \in DOMAIN rate_limit_count)
                        /\ CountIn(rate_limit_count', b)
                               = CountIn(rate_limit_count, b)]_vars

\* C12 witness: an admitted check has just raised the count of its address
\* to 2 while another address has an entry.
C12_Witness ==
    \E h \in Handlers :
        /\ RateLimitEnabled
        /\ pc[h] = "get_report"
        /\ Count(client_ip[h]) = 2
        /\ \E b \in IPs \ {client_ip[h]} : Count(b) >= 1

\* ================================================================== C13
\* C13: a step in which a connection handler moves or sends a response leaves
\* the report unchanged and neither removes an entry of the rate-limit table
\* nor lowers a count; a step of the health checker leaves the table
\* unchanged; and a step that removes an entry or lowers a count is the reset
\* task's, which empties the table and leaves the report and the health
\* checker's cycle unchanged.
C13_WritersOfSharedState ==
    [][LET Kept == \A ip \in DOMAIN rate_limit_count :
                       /\ ip \in DOMAIN rate_limit_count'
                       /\ rate_limit_count'[ip] >= rate_limit_count[ip]
       IN /\ (pc' # pc \/ last_event' # NoEvent) =>
                 (report_state' = report_state /\ Kept)
          /\ hc_idx' # hc_idx => rate_limit_count' = rate_limit_count
          /\ ~Kept => /\ rate_limit_count' = EmptyMap
                      /\ pc' = pc
                      /\ report_state' = report_state
                      /\ hc_idx' = hc_idx]_vars

\* C13 witness: a handler has just relayed a response while the report lists
\* an upstream and the table has the entries of two addresses.
C13_Witness ==
    /\ last_event.in = "response"
    /\ report_state # <<>>
    /\ DOMAIN rate_limit_count = IPs

\* ================================================================== C14
\* C14: the report lists configured upstream addresses only, and it is empty
\* until the first health-check cycle has been published.
C14_ReportWithinConfiguration ==
    /\ Range(report_state) \subseteq Range(upstream_addresses)
    /\ published_log = <<>> => report_state = <<>>

\* C14 witness: the report lists one of two configured upstreams.
C14_Witness ==
    /\ Len(upstream_addresses) = 2
    /\ Len(report_state) = 1
    /\ published_log # <<>>

\* ================================================================== C15
\* C15: after a 429 the handler is back at reading a request on the same
\* connection: the connection is open and a later request on it is read.
C15_ThrottledSessionStaysOpen ==
    last_event.in = "rate_over" =>
        /\ last_event.out = TOO_MANY_REQUESTS
        /\ pc[last_event.h] = "read_request"
        /\ client_ip[last_event.h] = last_event.ip
        /\ ENABLED ReadRequest(last_event.h, "Ok")

\* ================================================================== C16
\* C16: a handler run starts by reading a request, and the rate-limit check
\* and the upstream selection happen for a request that has been parsed: a
\* handler that checks or updates the counter, or that takes the snapshot or
\* draws an upstream, holds a parsed request.
C16_RequestBeforeQuotaAndUpstream ==
    \A h \in Handlers :
        pc[h] \in {"rate_over", "rate_write", "get_report", "select"}
            => request[h] \in ClientRequests

\* ================================================================== C17
\* C17: when the write to the upstream or the read of its response fails, 502
\* is sent to the client and the session is closed: both sockets are dropped
\* and no request can be read by that handler run any more.
C17_UpstreamFailureCloses ==
    [][\A h \in Handlers :
          (\/ pc[h] = "forward" /\ pc'[h] \notin {"forward", "read_response"}
           \/ pc[h] = "read_response"
                  /\ pc'[h] \notin {"read_response", "read_request"})
              => /\ last_event'.h = h
                 /\ last_event'.in \in {"upstream_write", "upstream_read"}
                 /\ last_event'.out = BAD_GATEWAY
                 /\ pc'[h] = "idle"
                 /\ client_ip'[h] = ""
                 /\ upstream_conn'[h] = 0]_vars

\* C17 witness: the read of the upstream's response has just failed.
C17_Witness ==
    /\ last_event.in = "upstream_read"
    /\ last_event.out = BAD_GATEWAY
    /\ pc[last_event.h] = "idle"

\* ================================================================== C18
\* C18: the report changes only in the one step that ends a health-check
\* cycle, after every upstream was probed, and becomes the whole failure list
\* of that cycle; the snapshot a selection call takes is the empty initial
\* report or the whole failure list of the last finished cycle, and it stays
\* what it is during the call.
C18_ReportPublishedWhole ==
    [][/\ report_state' # report_state =>
             /\ hc_idx = Len(upstream_addresses)
             /\ Len(probe_log) = Len(upstream_addresses)
             /\ report_state' = FailedOf(probe_log)
             /\ published_log' = probe_log
       /\ \A h \in Handlers :
             /\ (pc[h] = "get_report" /\ pc'[h] = "select") =>
                    report'[h] = IF published_log = <<>> THEN <<>>
                                 ELSE FailedOf(published_log)
             /\ (pc[h] = "select" /\ pc'[h] = "select") =>
                    report'[h] = report[h]]_vars

\* C18 witness: a selection call holds the report of the last finished cycle
\* while the running cycle has a different partial result.
C18_Witness ==
    \E h \in Handlers :
        /\ Len(upstream_addresses) = 2
        /\ hc_idx = 1
        /\ failed_servers # report_state
        /\ report_state # <<>>
        /\ pc[h] = "select"
        /\ report[h] = report_state

\* ================================================================== C19
\* C19: on one connection the handler reads a request only at the start of
\* the session or after the response to the previous request was relayed; a
\* request that was read is written to the upstream, then its response is
\* read and relayed, or the session ends.
C19_OneRequestAtATime ==
    [][\A h \in Handlers :
          /\ (pc[h] # "read_request" /\ pc'[h] = "read_request") =>
                 \/ pc[h] = "select"
                 \/ /\ pc[h] = "read_response"
                    /\ last_event'.h = h
                    /\ last_event'.in = "response"
          /\ (pc[h] = "read_request" /\ pc'[h] # "read_request") =>
                 pc'[h] \in {"forward", "idle"}
          /\ (pc[h] = "forward" /\ pc'[h] # "forward") =>
                 pc'[h] \in {"read_response", "idle"}
          /\ (pc[h] = "read_response" /\ pc'[h] # "read_response") =>
                 pc'[h] \in {"read_request", "idle"}]_vars

\* C19 witness: the response to a request has just been relayed and the
\* handler is ready to read the next request of the connection.
C19_Witness ==
    /\ last_event.in = "response"
    /\ last_event.out = OK
    /\ pc[last_event.h] = "read_request"
    /\ request[last_event.h] = NoRequest

\* ================================================================== C20
\* C20: a handler has no upstream connection before its selection call
\* returns one; from then until the session ends it keeps that connection,
\* stays in the request loop and does not select again.
C20_OneUpstreamPerSession ==
    [][\A h \in Handlers :
          /\ upstream_conn[h] # 0 =>
                 \/ upstream_conn'[h] = upstream_conn[h]
                 \/ upstream_conn'[h] = 0 /\ pc'[h] = "idle"
          /\ pc[h] \in {"read_request", "forward", "read_response"} =>
                 /\ upstream_conn[h] # 0
                 /\ pc'[h] \in {"read_request", "forward", "read_response",
                                 "idle"}
          /\ pc[h] \in {"idle", "rate_over", "rate_write", "get_report",
                         "select"} => upstream_conn[h] = 0
          /\ (pc[h] = "select" /\ upstream_conn'[h] # 0) =>
                 pc'[h] = "read_request"]_vars

\* C20 witness: a handler is about to write a request to its upstream while
\* the report lists that upstream as failed and another one is configured.
C20_Witness ==
    \E h \in Handlers :
        /\ pc[h] = "forward"
        /\ Len(upstream_addresses) = 2
        /\ Contains(report_state, upstream_conn[h])

\* ================================================================== C21
\* C21: a task that is at socket I/O or at a timer holds no guard: a handler
\* waiting for a connection, sending 429, connecting to an upstream, or
\* reading and writing in its request loop; the health checker during its
\* delay and its probes; the reset task during its delay.  A step taken
\* under a guard sends nothing.
C21_NoGuardAcrossIO ==
    /\ \A h \in Handlers :
           pc[h] \in {"idle", "too_many", "select", "read_request", "forward",
                      "read_response"}
               => ~Holds(rate_lock, h) /\ ~Holds(report_lock, h)
    /\ hc_idx < Len(upstream_addresses)
           => ~Holds(rate_lock, HealthTask) /\ ~Holds(report_lock, HealthTask)
    /\ reset_pc = "delay"
           => ~Holds(rate_lock, ResetTask) /\ ~Holds(report_lock, ResetTask)
    /\ last_event # NoEvent
           => ~Holds(rate_lock, last_event.h) /\ ~Holds(report_lock, last_event.h)

\* C21 witness: a handler is connecting to an upstream while the health
\* checker holds the write guard of the report and another handler waits for
\* a read guard.
C21_Witness ==
    \E h \in Handlers :
        /\ pc[h] = "select"
        /\ report_lock.w = HealthTask
        /\ report_lock.q # <<>>

\* ================================================================== C22
\* C22: the count of every address in the table is at least 1 and is the
\* number of admissions of that address whose increment happened since the
\* last reset; an address without entry has none.
C22_CountIsAdmissions ==
    \A ip \in IPs :
        /\ ip \in DOMAIN rate_limit_count => rate_limit_count[ip] >= 1
        /\ CountIn(rate_limit_count, ip) = admitted[ip]

\* C22 witness: two handlers of one address passed the lookup together and
\* then both updated the table: the count is above the threshold and no
\* increment is lost.
C22_Witness ==
    \E ip \in IPs :
        /\ RateLimitEnabled
        /\ rate_limit_count # EmptyMap
        /\ Count(ip) = max_requests_per_minute + 1
        /\ admitted[ip] = max_requests_per_minute + 1

\* ================================================================== C23
\* C23: a task that waits for a guard holds none, and every task that waits
\* for a guard gets it (the guard it gets is the one it waits for, since a
\* guard is granted to the first task of the lock's queue only).
C23_GuardsAreGranted ==
    /\ [](\A t \in Tasks :
             (Waits(rate_lock, t) \/ Waits(report_lock, t))
                 => ~Holds(rate_lock, t) /\ ~Holds(report_lock, t))
    /\ \A t \in Tasks :
           (Waits(rate_lock, t) \/ Waits(report_lock, t))
               ~> (Holds(rate_lock, t) \/ Holds(report_lock, t))

\* C23 witness: the reset task and a handler wait, in this order, behind a
\* handler that holds a read guard of the table.
C23_Witness ==
    /\ rate_lock.r # {}
    /\ Len(rate_lock.q) = 2
    /\ rate_lock.q[1] = ResetTask

\* ================================================================== C24
\* C24: a selection call whose snapshot does not list the configured
\* upstream u, while u accepts connections, returns a connection unless u
\* stops accepting: whatever the other upstreams do and whatever the report
\* says of them.
C24_SelectionReturns ==
    \A h \in DrawHandlers : \A u \in 1..MaxUpstreams :
        (/\ pc[h] = "select"
         /\ u \in Range(upstream_addresses)
         /\ ~Contains(report[h], u)
         /\ u \in accepting)
            ~> (u \notin accepting \/ (pc[h] = "read_request" /\ upstream_conn[h] # 0))

\* C24 witness: a call has returned a connection while the other configured
\* upstream refuses connections and the report lists it.
C24_Witness ==
    \E h \in DrawHandlers :
        /\ last_event = Event(h, client_ip[h], "connected", 0)
        /\ Len(upstream_addresses) = 2
        /\ \E u \in Range(upstream_addresses) :
               /\ u # upstream_conn[h]
               /\ u \notin accepting
               /\ Contains(report_state, u)

====
